---- MODULE Spec2Model ----
(***************************************************************************)
(* neo-nas: directory lifecycle monitor (internal/watcher), incremental    *)
(* backup engine and progress store (internal/backup, internal/config).    *)
(* One Watcher with its backup.Manager per binding; all Managers write the *)
(* same progress file.                                                     *)
(***************************************************************************)
EXTENDS Integers, Sequences, FiniteSets, TLC

\* ------------------------------------------------------------------ bounds
NumBindings == 2
\* the wall clock runs over 1..MaxTime
MaxTime == 2
\* number of times the environment removes or recreates a source directory
MaxToggles == 2
\* number of changes the environment makes to the content of the source volumes
MaxEdits == 1
\* number of I/O faults (copy, mkdir, progress write) the environment injects
MaxFaults == 1
\* number of ticks the poll loop's select may still pick after stopChan is closed
MaxLateTicks == 1

\* the zero value of time.Time (DirectoryStatus.LastSync before any scan)
ZeroTime == 0

Bindings == 1..NumBindings

\* ------------------------------------------------------------ path universe
\* Source-relative paths of a binding; the target path of p is the same
\* relative path under targetDir (BuildTargetPath).
Root == "/"
None == ""
Paths == {"a", "d", "d/e", "d/f"}
\* os.ReadDir and filepath.WalkDir list a directory in lexical order
PathOrder == <<"a", "d", "d/e", "d/f">>
Dirs == {"d", "d/e"}
Files == Paths \ Dirs

Parent(p) == IF p \in {"d/e", "d/f"} THEN "d" ELSE Root

IsDir(p) == p \in Dirs

RECURSIVE Ancestors(_)
Ancestors(p) ==
    IF Parent(p) = Root THEN {} ELSE {Parent(p)} \cup Ancestors(Parent(p))

Subtree(p) == {q \in Paths : q = p \/ p \in Ancestors(q)}

NoEntry == [ex |-> FALSE, mt |-> ZeroTime, part |-> FALSE]

Entry(m) == [ex |-> TRUE, mt |-> m, part |-> FALSE]

EmptyTree == [p \in Paths |-> NoEntry]

\* the entries of tree t that are children of directory dir, in listing order
Children(t, dir) == SelectSeq(PathOrder, LAMBDA p : Parent(p) = dir /\ t[p].ex)

\* ------------------------------------------------------------------- state
VARIABLES
    now,            \* wall clock
    togglesLeft,    \* removals and recreations of a source directory still allowed
    editsLeft,      \* changes of the source content still allowed
    faultsLeft,     \* I/O faults still allowed
    panicked,       \* the process died of a run-time panic
    watchers,       \* WatcherManager.watchers: the bindings with a Watcher
    srcOnline,      \* sourceDir of the binding exists (mounted)
    src,            \* content of the source volume
    tgt,            \* content of the target directory
    progressFile,   \* content of the shared progress file
    progress,       \* Manager.progress.BackupConfigs, per Manager
    progressLock,   \* Manager.progressLock is held, per Manager
    activeOps,      \* Manager.activeOps: the counter of the WaitGroup, per Manager
    waiter,         \* where a caller of Manager.WaitForCompletion stands, per Manager
    status,         \* Watcher.status (DirectoryStatus)
    stopped,        \* Watcher.stopChan is closed
    pollRunning,    \* the checkDirectory goroutine is alive
    lateLeft,       \* ticks select may still pick after stopChan was closed
    scans,          \* the scanDirectory goroutines of the Watcher
    hist            \* history of the binding, for stating the properties

vars == <<now, togglesLeft, editsLeft, faultsLeft, panicked, watchers, srcOnline, src, tgt,
          progressFile, progress, progressLock, activeOps, waiter, status, stopped,
          pollRunning, lateLeft, scans, hist>>

envVars == <<now, togglesLeft, editsLeft, srcOnline, src>>
drainVars == <<activeOps, waiter>>
\* the progress file and the fields of the Managers
progressVars == <<progressFile, progress, progressLock, drainVars>>
pollVars == <<stopped, pollRunning, lateLeft>>

\* ------------------------------------------------------------ progress store
ProgressConfigItem(b, t) == [SourceDir |-> b, ProgressTime |-> t]

EmptyProgress == <<>>

HasRecord(cfgs, b) == \E i \in 1..Len(cfgs) : cfgs[i].SourceDir = b

RecordTime(cfgs, b) ==
    LET i == CHOOSE j \in 1..Len(cfgs) :
                 /\ cfgs[j].SourceDir = b
                 /\ \A k \in 1..(j - 1) : cfgs[k].SourceDir # b
    IN  cfgs[i].ProgressTime

\* updateProgressTime without the search for a matching record
updateProgressTimeAppend(cfgs, b, t) == Append(cfgs, ProgressConfigItem(b, t))

\* Manager.updateProgressTime: update the first matching record or append one
updateProgressTime(cfgs, b, t) ==
    IF HasRecord(cfgs, b)
    THEN LET i == CHOOSE j \in 1..Len(cfgs) :
                      /\ cfgs[j].SourceDir = b
                      /\ \A k \in 1..(j - 1) : cfgs[k].SourceDir # b
         IN  [cfgs EXCEPT ![i].ProgressTime = t]
    ELSE Append(cfgs, ProgressConfigItem(b, t))

\* config.LoadProgress: the records of the file (an absent file gives none)
LoadProgress(file) == file

\* ProgressConfig.Save: the whole record set of one Manager replaces the file
SaveFile(cfgs) == cfgs

\* how os.WriteFile in ProgressConfig.Save may end: nil; an error from opening
\* the file; an error from writing after the open has truncated it
WriteResults == {"ok", "failOpen", "failWrite"}

\* the progress file after ProgressConfig.Save ended with `res`: a file cut
\* short holds no record a reader can get
WriteFile(file, cfgs, res) ==
    IF res = "ok" THEN SaveFile(cfgs)
    ELSE IF res = "failOpen" THEN file
    ELSE EmptyProgress

\* ------------------------------------------------------------ backup engine
SrcStatOk(b, p) == srcOnline[b] /\ src[b][p].ex

\* Manager.getLastSyncTime: nil (FALSE) when sourceDir is gone or has no record
HasLastSyncTime(b) == srcOnline[b] /\ HasRecord(progress[b], b)

getLastSyncTime(b) == RecordTime(progress[b], b)

\* the directory that is to hold target path p exists
ParentExists(t, p) == IF Parent(p) = Root THEN TRUE ELSE t[Parent(p)].ex

\* how copyFile may end: nil; nil although os.Chtimes failed (it is only
\* logged); an error from os.Open or os.Create; an error after os.Create made
\* the target file (from io.Copy or from the os.Stat of the source that
\* follows), which leaves the file as far as it was written
CopyResults == {"ok", "okNoTimes", "failOpen", "failPartial"}

\* copyFile returning nil whenever os.Create made the target file
CopySucceedsOnceCreated(b, p, copy) ==
    SrcStatOk(b, p) /\ ParentExists(tgt[b], p) /\ copy # "failOpen"

\* Manager.copyFile returns nil
CopySucceeds(b, p, copy) ==
    SrcStatOk(b, p) /\ ParentExists(tgt[b], p) /\ copy \in {"ok", "okNoTimes"}

\* Backup without the check that the target file exists
BackupNoExistCheck(b, p, copy) ==
    IF ~SrcStatOk(b, p) THEN "Failed"
    ELSE IF HasLastSyncTime(b) /\ src[b][p].mt < getLastSyncTime(b) THEN "Skipped"
    ELSE IF CopySucceeds(b, p, copy) THEN "Success"
    ELSE "Failed"

\* Backup skipping the files not modified after the last sync
BackupSkipsEqualTime(b, p, copy) ==
    IF ~SrcStatOk(b, p) THEN "Failed"
    ELSE IF HasLastSyncTime(b) /\ src[b][p].mt <= getLastSyncTime(b) THEN "Skipped"
    ELSE IF tgt[b][p].ex THEN "Skipped"
    ELSE IF CopySucceeds(b, p, copy) THEN "Success"
    ELSE "Failed"

\* Manager.Backup: the outcome for file p when copyFile would end with `copy`
Backup(b, p, copy) ==
    IF ~SrcStatOk(b, p) THEN "Failed"
    ELSE IF HasLastSyncTime(b) /\ src[b][p].mt < getLastSyncTime(b) THEN "Skipped"
    ELSE IF tgt[b][p].ex THEN "Skipped"
    ELSE IF CopySucceeds(b, p, copy) THEN "Success"
    ELSE "Failed"

\* Manager.Backup reaches copyFile: the source file is there and the outcome
\* is that of the copy
ReachesCopy(b, p) == SrcStatOk(b, p) /\ Backup(b, p, "failOpen") = "Failed"

\* copyFile leaving the time of the write on the target file
copyFileNoChtimes(b, p, copy) ==
    IF ~SrcStatOk(b, p) \/ ~ParentExists(tgt[b], p) \/ copy = "failOpen" THEN tgt[b]
    ELSE IF copy \in {"ok", "okNoTimes"}
         THEN [tgt[b] EXCEPT ![p] = Entry(now)]
         ELSE [tgt[b] EXCEPT ![p] = [ex |-> TRUE, mt |-> now, part |-> TRUE]]

\* Manager.copyFile: the target tree after copying p with result `copy`
\* (os.Create truncates a file that is there)
copyFile(b, p, copy) ==
    IF ~SrcStatOk(b, p) \/ ~ParentExists(tgt[b], p) \/ copy = "failOpen" THEN tgt[b]
    ELSE IF copy = "ok" THEN [tgt[b] EXCEPT ![p] = Entry(src[b][p].mt)]
    ELSE IF copy = "okNoTimes" THEN [tgt[b] EXCEPT ![p] = Entry(now)]
    ELSE [tgt[b] EXCEPT ![p] = [ex |-> TRUE, mt |-> now, part |-> TRUE]]

\* ---------------------------------------------------------------- the scan
\* os.MkdirAll(targetPath): p and its missing ancestors
MkdirAll(t, p, m) ==
    [q \in Paths |-> IF q \in Ancestors(p) \cup {p} /\ ~t[q].ex THEN Entry(m) ELSE t[q]]

\* PruneOrSync removing a directory the scan created with all it holds
PruneOrSyncRemoveAll(t, p, isNewDir, mt) ==
    IF isNewDir /\ t[p].ex
    THEN [q \in Paths |-> IF q \in Subtree(p) THEN NoEntry ELSE t[q]]
    ELSE IF t[p].ex THEN [t EXCEPT ![p].mt = mt] ELSE t

\* the end of the callback for a directory, after its subtree was walked:
\* a directory this scan created and that is still empty is removed, any other
\* gets the source directory's modification time
PruneOrSync(t, p, isNewDir, mt) ==
    IF isNewDir /\ t[p].ex /\ Children(t, p) = <<>>
    THEN [t EXCEPT ![p] = NoEntry]
    ELSE IF t[p].ex THEN [t EXCEPT ![p].mt = mt] ELSE t

Frame(dir, todo, isNewDir, mt) ==
    [dir |-> dir, todo |-> todo, isNewDir |-> isNewDir, mt |-> mt]

\* a scanDirectory goroutine that has not run yet: its position (pc, the
\* stack of WalkDir calls, the file handed to handleFileChange, the walk's
\* error) and, for stating the properties, what happened in it
NewScan ==
    [pc |-> "start", stack |-> <<>>, cur |-> None, copying |-> FALSE, err |-> FALSE,
     mk |-> FALSE,          \* os.Stat(targetPath) failed, os.MkdirAll comes next
     fatal |-> FALSE,       \* a callback returned an error, at any depth
     statErr |-> {},        \* entries whose os.Stat in the callback failed
     mkdirErr |-> FALSE,    \* os.MkdirAll failed
     synced |-> FALSE,      \* the scan set LastSync and called SaveProgress
     made |-> {},           \* target directories os.MkdirAll created for the scan
                            \* and nobody removed since
     left |-> {},           \* directories whose callback has returned
     ndirs |-> 0,           \* number of recursive scanSubDirectory calls
     nfiles |-> 0,          \* number of handleFileChange calls
     visited |-> {},        \* files passed to Backup
     ok |-> {}, failed |-> {}, skipped |-> {},   \* their outcomes
     stable |-> {},         \* files on the volume ever since the scan began
     offline |-> FALSE,     \* sourceDir was missing at some time of the scan
     edited |-> FALSE,      \* the source content changed during the scan
     hasPrev |-> FALSE,     \* an earlier scan had ended, sourceDir present all
                            \* through it and the content untouched since its end
     afterClean |-> FALSE,  \* the same, the content untouched since its start, and
                            \* it met no error and no Failed outcome
     newAtStart |-> {},     \* files added since an earlier scan, without target copy
     retry |-> {},          \* files Failed in the scan before, still in the source
     delAtStart |-> {}]     \* files once backed up and deleted from the source since

Top(s) == s.stack[Len(s.stack)]

\* Pop with the directory of the ended walk listed again by the walk above
PopRequeue(stack) ==
    LET rest == SubSeq(stack, 1, Len(stack) - 1)
    IN  IF rest = <<>> THEN rest
        ELSE [rest EXCEPT ![Len(rest)].todo = <<stack[Len(stack)].dir>> \o @]

\* the stack of WalkDir calls after the innermost has returned
Pop(stack) == SubSeq(stack, 1, Len(stack) - 1)

SetTop(stack, f) == [stack EXCEPT ![Len(stack)] = f]

\* WalkError with scanDirectory returning on a walk error, before its last
\* statement
WalkErrorNoClear(s) ==
    IF Len(s.stack) = 1
    THEN [s EXCEPT !.pc = "returned", !.stack = <<>>, !.err = TRUE, !.fatal = TRUE]
    ELSE [s EXCEPT !.stack = SetTop(s.stack, [Top(s) EXCEPT !.todo = <<>>]),
                   !.fatal = TRUE]

\* the callback returns an error: the WalkDir call that was walking stops. The
\* result of a recursive scanSubDirectory call is dropped by its caller (which
\* goes on with the directory's pruning), the result of the outermost call is
\* what scanDirectory sees.
WalkError(s) ==
    IF Len(s.stack) = 1
    THEN [s EXCEPT !.pc = "clear", !.stack = <<>>, !.err = TRUE, !.fatal = TRUE]
    ELSE [s EXCEPT !.stack = SetTop(s.stack, [Top(s) EXCEPT !.todo = <<>>]),
                   !.fatal = TRUE]

\* InitStatus taking sourceDir for present before the first poll
InitStatusOnline ==
    [IsBackingUp |-> FALSE, IsLastCheckExists |-> TRUE, LastSync |-> ZeroTime,
     TotalFiles |-> 0, SuccessFiles |-> 0, FailedFiles |-> 0, SkippedFiles |-> 0]

\* the status NewWatcher leaves: the zero value of DirectoryStatus
InitStatus ==
    [IsBackingUp |-> FALSE, IsLastCheckExists |-> FALSE, LastSync |-> ZeroTime,
     TotalFiles |-> 0, SuccessFiles |-> 0, FailedFiles |-> 0, SkippedFiles |-> 0]

InitHist ==
    [everSuccess |-> {},         \* files Backup returned Success for
     tickAfterStop |-> FALSE,    \* a poll tick was processed after Stop
     launchAfterStop |-> FALSE,  \* a scan was launched after Stop
     lastObs |-> "none",         \* what the latest poll tick saw of sourceDir
     obsFresh |-> FALSE,         \* sourceDir was not removed or recreated since
     obsBusy |-> FALSE,          \* IsBackingUp when that tick began
     launchesSinceAbsent |-> 0,  \* scans launched since a tick last saw it absent
     recreatePending |-> FALSE,  \* sourceDir was recreated, no scan launched since
     prevDone |-> FALSE,         \* a scan has ended
     prevOnline |-> FALSE,       \* sourceDir was present all through the last one
     editedSinceEnd |-> FALSE,   \* the content changed since it ended
     prevClean |-> FALSE,        \* it was clean and nothing changed since it began
     added |-> {},               \* files added after a scan had ended
     saved |-> FALSE,            \* SaveProgress has written this binding's record
     chtimesFailed |-> {},       \* files copied with os.Chtimes failing
     prevFailed |-> {},          \* files with outcome Failed in the last ended scan
     live |-> 0,                 \* Watchers AddWatcher started for the sourceDir
                                 \* that StopAll has not stopped
     drained |-> FALSE]          \* a WaitForCompletion that had to block returned

\* the history at Start, with the bindings ws registered by AddWatcher
HistAtStart(ws) ==
    [b \in Bindings |-> [InitHist EXCEPT !.live = IF b \in ws THEN 1 ELSE 0]]

\* the history after a scan was launched or not by a poll tick
TickHist(h, obs, busy, launched, late) ==
    [h EXCEPT
        !.tickAfterStop = @ \/ late,
        !.launchAfterStop = @ \/ (late /\ launched),
        !.lastObs = IF obs = "error" THEN @ ELSE obs,
        !.obsFresh = IF obs = "error" THEN @ ELSE TRUE,
        !.obsBusy = IF obs = "error" THEN @ ELSE busy,
        !.launchesSinceAbsent =
            IF obs = "notexist" THEN 0
            ELSE IF launched /\ @ < 2 THEN @ + 1 ELSE @,
        !.recreatePending = @ /\ ~launched]

\* the running scans and the history after sourceDir was removed
OfflineScans(ss) ==
    [i \in DOMAIN ss |->
        IF ss[i].pc = "start" THEN ss[i]
        ELSE [ss[i] EXCEPT !.offline = TRUE, !.stable = {}]]

\* the running scans and the history after the entries `gone` left the volume
\* or a file was added or rewritten
EditedScans(ss, gone) ==
    [i \in DOMAIN ss |->
        IF ss[i].pc = "start" THEN ss[i]
        ELSE [ss[i] EXCEPT !.edited = TRUE, !.stable = @ \ gone]]

EditHist(h, gone, new) ==
    [h EXCEPT !.editedSinceEnd = TRUE, !.prevClean = FALSE,
              !.added = (@ \ gone) \cup new]

\* the running scans after the target directories `gone` were removed: these
\* are no longer directories a scan has created
Unmade(ss, gone) == [j \in DOMAIN ss |-> [ss[j] EXCEPT !.made = @ \ gone]]

\* the history after scan s ended
EndHist(h, s) ==
    [h EXCEPT !.prevDone = TRUE, !.prevOnline = ~s.offline,
              !.editedSinceEnd = FALSE,
              !.prevClean = ~s.fatal /\ s.failed = {} /\ ~s.offline /\ ~s.edited,
              !.prevFailed = s.failed]

\* ------------------------------------------------------------------- Init
TreeOf(ps) == [p \in Paths |-> IF p \in ps THEN Entry(1) ELSE NoEntry]

\* the source content at Start
InitTrees == {TreeOf({"a", "d", "d/f"}), TreeOf({"d", "d/f"})}

\* What the environment does in one run: either it edits the source content and
\* injects faults, or the scheduler lets select pick ticks after Stop.
Budget(toggles, edits, faults, late) ==
    [toggles |-> toggles, edits |-> edits, faults |-> faults, late |-> late]

Budgets ==
    {Budget(MaxToggles, MaxEdits, MaxFaults, 0), Budget(MaxToggles, 0, 0, MaxLateTicks)}

InitBudget(set) ==
    \E bg \in set :
        /\ togglesLeft = bg.toggles
        /\ editsLeft = bg.edits
        /\ faultsLeft = bg.faults
        /\ lateLeft = bg.late

InitCommon ==
    /\ now = 1
    /\ panicked = FALSE
    /\ progressLock = [b \in Bindings |-> FALSE]
    /\ activeOps = [b \in Bindings |-> 0]
    /\ waiter = [b \in Bindings |-> "idle"]
    /\ status = [b \in Bindings |-> InitStatus]
    /\ stopped = [b \in Bindings |-> FALSE]
    /\ scans = [b \in Bindings |-> <<>>]

\* One configured binding, first run (no progress file yet); NewManager loads
\* the progress and Start launches the poll loop.
InitOne(budgets, trees) ==
    /\ InitCommon
    /\ InitBudget(budgets)
    /\ watchers = {1}
    /\ hist = HistAtStart(watchers)
    /\ srcOnline \in [Bindings -> BOOLEAN]
    /\ \A b \in Bindings : b \notin watchers => ~srcOnline[b]
    /\ \E t \in trees :
           src = [b \in Bindings |-> IF b \in watchers THEN t ELSE EmptyTree]
    /\ tgt = [b \in Bindings |-> EmptyTree]
    /\ progressFile = EmptyProgress
    /\ progress = [b \in Bindings |-> LoadProgress(progressFile)]
    /\ pollRunning = [b \in Bindings |-> b \in watchers]

Init == InitOne(Budgets, InitTrees)

\* the source content at Start in the runs where Stop races with the ticker: a
\* file at the root and one in a directory, or nested empty directories
RaceTrees == {TreeOf({"a", "d", "d/f"}), TreeOf({"d", "d/e"})}

\* One configured binding; select may pick a tick after Stop closed stopChan,
\* and I/O faults are injected; the source content stays as it is.
InitRace == InitOne({Budget(MaxToggles, 0, MaxFaults, MaxLateTicks)}, RaceTrees)

\* the progress file an earlier run left, every binding saved at time 1
PrevRunFile == [b \in Bindings |-> ProgressConfigItem(b, 1)]

\* Every binding configured on one progress file, which is new or left by an
\* earlier run that backed the trees up; each NewManager loads its own copy.
\* The sources stay as they are and no fault is injected.
InitShared ==
    /\ InitCommon
    /\ InitBudget({Budget(0, 0, 0, 0)})
    /\ watchers = Bindings
    /\ hist = HistAtStart(watchers)
    /\ srcOnline = [b \in Bindings |-> TRUE]
    /\ src = [b \in Bindings |-> TreeOf({"a"})]
    /\ progressFile \in {EmptyProgress, PrevRunFile}
    /\ tgt = [b \in Bindings |->
                 IF progressFile = EmptyProgress THEN EmptyTree ELSE src[b]]
    /\ progress = [b \in Bindings |-> LoadProgress(progressFile)]
    /\ pollRunning = [b \in Bindings |-> TRUE]

\* ---------------------------------------------------------------- monitor
\* Watcher.checkDirectoryExists, when os.Stat(sourceDir) gives `obs`
\* ShouldLaunch without the test of IsLastCheckExists
ShouldLaunchAnyTime(b, obs) ==
    obs = "exists" /\ ~status[b].IsBackingUp

\* the guard of the scan launch
ShouldLaunch(b, obs) ==
    obs = "exists" /\ ~status[b].IsBackingUp /\ ~status[b].IsLastCheckExists

\* LaunchStatus forgetting to record that sourceDir was seen
LaunchStatusUnmarked(st) == [st EXCEPT !.IsBackingUp = TRUE]

\* the status after the launch
LaunchStatus(st) == [st EXCEPT !.IsLastCheckExists = TRUE, !.IsBackingUp = TRUE]

\* checkDirectoryExists giving up the scan in progress when sourceDir is gone
checkDirectoryExistsGivesUp(b, obs) ==
    /\ IF obs = "notexist"
       THEN /\ status' = [status EXCEPT ![b].IsLastCheckExists = FALSE,
                                        ![b].IsBackingUp = FALSE]
            /\ UNCHANGED scans
       ELSE IF ShouldLaunch(b, obs)
       THEN /\ status' = [status EXCEPT ![b] = LaunchStatus(@)]
            /\ scans' = [scans EXCEPT ![b] = Append(@, NewScan)]
       ELSE UNCHANGED <<status, scans>>
    /\ hist' = [hist EXCEPT ![b] =
          TickHist(@, obs, status[b].IsBackingUp, ShouldLaunch(b, obs), stopped[b])]

checkDirectoryExists(b, obs) ==
    /\ IF obs = "notexist"
       THEN /\ status' = [status EXCEPT ![b].IsLastCheckExists = FALSE]
            /\ UNCHANGED scans
       ELSE IF ShouldLaunch(b, obs)
       THEN /\ status' = [status EXCEPT ![b] = LaunchStatus(@)]
            /\ scans' = [scans EXCEPT ![b] = Append(@, NewScan)]
       ELSE UNCHANGED <<status, scans>>
    /\ hist' = [hist EXCEPT ![b] =
          TickHist(@, obs, status[b].IsBackingUp, ShouldLaunch(b, obs), stopped[b])]

\* checkDirectory: the ticker delivers a tick, select takes it and runs
\* checkDirectoryExists. With stopChan closed and a tick delivered both cases
\* of the select are ready and either may be chosen.
PollTick(b) ==
    /\ ~panicked /\ pollRunning[b]
    /\ stopped[b] => lateLeft > 0
    /\ lateLeft' = IF stopped[b] THEN lateLeft - 1 ELSE lateLeft
    /\ \E obs \in {IF srcOnline[b] THEN "exists" ELSE "notexist", "error"} :
          checkDirectoryExists(b, obs)
    /\ UNCHANGED <<envVars, faultsLeft, panicked, watchers, tgt, progressVars,
                   stopped, pollRunning>>

\* checkDirectory: select takes the closed stopChan, the goroutine returns and
\* the deferred ticker.Stop() runs
PollExit(b) ==
    /\ ~panicked /\ pollRunning[b] /\ stopped[b]
    /\ pollRunning' = [pollRunning EXCEPT ![b] = FALSE]
    /\ UNCHANGED <<envVars, faultsLeft, panicked, watchers, tgt, progressVars,
                   status, stopped, lateLeft, scans, hist>>

\* Watcher.Stop: close(stopChan) panics when the channel is closed already;
\* the panic ends the process with all its goroutines and memory, the files
\* stay as they are
Stop(b) ==
    /\ ~panicked /\ b \in watchers
    /\ IF stopped[b]
       THEN /\ panicked' = TRUE
            /\ status' = [c \in Bindings |-> InitStatus]
            /\ scans' = [c \in Bindings |-> <<>>]
            /\ pollRunning' = [c \in Bindings |-> FALSE]
            /\ progress' = [c \in Bindings |-> EmptyProgress]
            /\ progressLock' = [c \in Bindings |-> FALSE]
            /\ activeOps' = [c \in Bindings |-> 0]
            /\ waiter' = [c \in Bindings |-> "idle"]
            /\ UNCHANGED stopped
       ELSE /\ stopped' = [stopped EXCEPT ![b] = TRUE]
            /\ status' = [status EXCEPT ![b].IsBackingUp = FALSE]
            /\ UNCHANGED <<panicked, scans, pollRunning, progress, progressLock,
                           drainVars>>
    /\ UNCHANGED <<envVars, faultsLeft, watchers, tgt, progressFile, lateLeft, hist>>

\* ------------------------------------------------------------- scan steps
SetScan(b, i, s) == scans' = [scans EXCEPT ![b][i] = s]

\* scanDirectory up to the first listing: the counters are cleared and WalkDir
\* lstats and lists sourceDir (an error there is passed to the callback, which
\* logs it and returns nil, so that the walk ends without error)
ScanStart(b, i) ==
    /\ ~panicked /\ i \in 1..Len(scans[b]) /\ scans[b][i].pc = "start"
    /\ status' = [status EXCEPT ![b].TotalFiles = 0, ![b].SuccessFiles = 0,
                                ![b].FailedFiles = 0, ![b].SkippedFiles = 0]
    /\ LET s == [scans[b][i] EXCEPT
                !.stable = IF srcOnline[b] THEN {p \in Files : src[b][p].ex} ELSE {},
                !.offline = ~srcOnline[b],
                !.hasPrev = hist[b].prevDone /\ hist[b].prevOnline
                            /\ ~hist[b].editedSinceEnd,
                !.afterClean = hist[b].prevDone /\ hist[b].prevClean,
                !.newAtStart = {p \in hist[b].added : src[b][p].ex /\ ~tgt[b][p].ex},
                !.retry = {p \in hist[b].prevFailed : src[b][p].ex},
                !.delAtStart = {p \in hist[b].everSuccess : ~src[b][p].ex}]
       IN  IF srcOnline[b]
           THEN SetScan(b, i, [s EXCEPT
                    !.pc = "walk",
                    !.stack = <<Frame(Root, Children(src[b], Root), FALSE, ZeroTime)>>])
           ELSE SetScan(b, i, [s EXCEPT !.pc = "save"])
    /\ UNCHANGED <<envVars, faultsLeft, panicked, watchers, tgt, progressVars,
                   pollVars, hist>>

\* the callback of scanSubDirectory for the next listed entry, up to the
\* recursive call (a directory whose target exists), up to os.MkdirAll (a
\* directory whose target os.Stat does not find) or up to the call of
\* handleFileChange (a file)
ScanVisit(b, i) ==
    /\ ~panicked /\ i \in 1..Len(scans[b])
    /\ LET s == scans[b][i] IN
       /\ s.pc = "walk" /\ s.cur = None /\ ~s.mk /\ Top(s).todo # <<>>
       /\ LET p == Head(Top(s).todo)
              rest == SetTop(s.stack, [Top(s) EXCEPT !.todo = Tail(@)])
          IN
          IF ~SrcStatOk(b, p)
          THEN \* os.Stat(path) fails
               /\ SetScan(b, i, WalkError([s EXCEPT !.statErr = @ \cup {p}]))
               /\ UNCHANGED <<tgt, status, faultsLeft>>
          ELSE IF IsDir(p)
          THEN IF tgt[b][p].ex
               THEN /\ SetScan(b, i, [s EXCEPT
                          !.stack = Append(rest,
                              Frame(p, Children(src[b], p), FALSE, src[b][p].mt)),
                          !.ndirs = @ + 1])
                    /\ UNCHANGED <<tgt, status, faultsLeft>>
               ELSE /\ SetScan(b, i, [s EXCEPT
                          !.stack = Append(rest, Frame(p, <<>>, FALSE, src[b][p].mt)),
                          !.mk = TRUE])
                    /\ UNCHANGED <<tgt, status, faultsLeft>>
          ELSE /\ status' = [status EXCEPT ![b].TotalFiles = @ + 1]
               /\ SetScan(b, i, [s EXCEPT !.stack = rest, !.cur = p,
                                           !.nfiles = @ + 1])
               /\ UNCHANGED <<tgt, faultsLeft>>
    /\ UNCHANGED <<envVars, panicked, watchers, progressVars, pollVars, hist>>

\* the callback for a directory after os.Stat(targetPath) failed: os.MkdirAll
\* (which succeeds as well when the directory has appeared meanwhile), isNewDir
\* and the recursive call's listing; or os.MkdirAll fails and the callback
\* returns the error
ScanMkdir(b, i) ==
    /\ ~panicked /\ i \in 1..Len(scans[b])
    /\ LET s == scans[b][i]
           p == Top(s).dir
       IN
       /\ s.pc = "walk" /\ s.mk
       /\ \/ /\ tgt' = [tgt EXCEPT ![b] = MkdirAll(tgt[b], p, now)]
             /\ SetScan(b, i, [s EXCEPT
                   !.stack = SetTop(s.stack, Frame(p,
                       IF SrcStatOk(b, p) THEN Children(src[b], p) ELSE <<>>,
                       TRUE, Top(s).mt)),
                   !.mk = FALSE,
                   !.ndirs = @ + 1,
                   !.made = @ \cup {q \in Ancestors(p) \cup {p} : ~tgt[b][q].ex}])
             /\ UNCHANGED faultsLeft
          \/ /\ faultsLeft > 0
             /\ faultsLeft' = faultsLeft - 1
             /\ SetScan(b, i, WalkError([s EXCEPT !.stack = Pop(s.stack), !.mk = FALSE,
                                                  !.mkdirErr = TRUE]))
             /\ UNCHANGED tgt
    /\ UNCHANGED <<envVars, panicked, watchers, progressVars, status, pollVars, hist>>

\* Watcher.handleFileChange: the counter of the outcome `out` of Manager.Backup;
\* the callback returns
handleFileChange(b, i, out) ==
    LET s == scans[b][i]
        p == s.cur
    IN  /\ status' = [status EXCEPT
              ![b].SuccessFiles = IF out = "Success" THEN @ + 1 ELSE @,
              ![b].FailedFiles = IF out = "Failed" THEN @ + 1 ELSE @,
              ![b].SkippedFiles = IF out = "Skipped" THEN @ + 1 ELSE @]
        /\ SetScan(b, i, [s EXCEPT
              !.cur = None,
              !.copying = FALSE,
              !.visited = @ \cup {p},
              !.ok = IF out = "Success" THEN @ \cup {p} ELSE @,
              !.failed = IF out = "Failed" THEN @ \cup {p} ELSE @,
              !.skipped = IF out = "Skipped" THEN @ \cup {p} ELSE @])

\* Manager.Backup: m.activeOps.Add(1)
BackupEnter(ops, b) == [ops EXCEPT ![b] = @ + 1]

\* Backup calling Done at its end, after the copy, and not by defer
BackupReturnNoDefer(ops, b, out) ==
    IF out = "Success" THEN [ops EXCEPT ![b] = @ - 1] ELSE ops

\* Manager.Backup returns `out`: the deferred m.activeOps.Done()
BackupReturn(ops, b, out) == [ops EXCEPT ![b] = @ - 1]

\* WaitGroup.Done with the counter at zero releases the blocked Wait
Wake(w, ops, b) ==
    IF ops[b] = 0 /\ w[b] = "blocked" THEN [w EXCEPT ![b] = "woken"] ELSE w

\* Manager.Backup up to its check of the target path: Failed or Skipped ends
\* the callback, otherwise copyFile is next
ScanBackup(b, i) ==
    /\ ~panicked /\ i \in 1..Len(scans[b])
    /\ scans[b][i].pc = "walk" /\ scans[b][i].cur # None /\ ~scans[b][i].copying
    /\ IF ReachesCopy(b, scans[b][i].cur)
       THEN /\ SetScan(b, i, [scans[b][i] EXCEPT !.copying = TRUE])
            /\ activeOps' = BackupEnter(activeOps, b)
            /\ UNCHANGED <<status, waiter>>
       ELSE LET out == Backup(b, scans[b][i].cur, "ok") IN
            /\ handleFileChange(b, i, out)
            /\ activeOps' = BackupReturn(BackupEnter(activeOps, b), b, out)
            /\ waiter' = Wake(waiter, activeOps', b)
    /\ UNCHANGED <<envVars, faultsLeft, panicked, watchers, tgt, progressFile,
                   progress, progressLock, pollVars, hist>>

\* Manager.copyFile and the rest of Backup
ScanCopy(b, i) ==
    /\ ~panicked /\ i \in 1..Len(scans[b])
    /\ scans[b][i].pc = "walk" /\ scans[b][i].copying
    /\ \E copy \in CopyResults :
          LET p == scans[b][i].cur
              done == CopySucceeds(b, p, copy)
          IN  /\ IF copy = "ok"
                 THEN UNCHANGED faultsLeft
                 ELSE faultsLeft > 0 /\ faultsLeft' = faultsLeft - 1
              /\ tgt' = [tgt EXCEPT ![b] = copyFile(b, p, copy)]
              /\ handleFileChange(b, i, IF done THEN "Success" ELSE "Failed")
              /\ activeOps' = BackupReturn(activeOps, b,
                                  IF done THEN "Success" ELSE "Failed")
              /\ waiter' = Wake(waiter, activeOps', b)
              /\ hist' = [hist EXCEPT
                    ![b].everSuccess = IF done THEN @ \cup {p} ELSE @,
                    ![b].chtimesFailed =
                        IF done THEN (IF copy = "okNoTimes" THEN @ \cup {p} ELSE @ \ {p})
                        ELSE @]
    /\ UNCHANGED <<envVars, panicked, watchers, progressFile, progress, progressLock,
                   pollVars>>

\* a WalkDir call has no entry left: the outermost call returns nil to
\* scanDirectory, a recursive call returns into the callback of its directory
ScanLeave(b, i) ==
    /\ ~panicked /\ i \in 1..Len(scans[b])
    /\ LET s == scans[b][i] IN
       /\ s.pc = "walk" /\ s.cur = None /\ ~s.mk /\ Top(s).todo = <<>>
       /\ IF Len(s.stack) = 1
          THEN /\ SetScan(b, i, [s EXCEPT !.pc = "save", !.stack = <<>>])
               /\ UNCHANGED tgt
          ELSE LET t == PruneOrSync(tgt[b], Top(s).dir, Top(s).isNewDir, Top(s).mt)
               IN  /\ tgt' = [tgt EXCEPT ![b] = t]
                   /\ scans' = [scans EXCEPT ![b] = Unmade(
                          [@ EXCEPT ![i].stack = Pop(s.stack),
                                    ![i].left = @ \cup {Top(s).dir}],
                          {q \in Paths : tgt[b][q].ex /\ ~t[q].ex})]
    /\ UNCHANGED <<envVars, faultsLeft, panicked, watchers, progressVars, status,
                   pollVars, hist>>

\* ScanSave with SaveProgress not looking whether sourceDir exists
ScanSaveUnchecked(b, i) ==
    /\ ~panicked /\ i \in 1..Len(scans[b]) /\ scans[b][i].pc = "save"
    /\ ~progressLock[b]
    /\ status' = [status EXCEPT ![b].LastSync = now]
    /\ progress' = [progress EXCEPT ![b] = updateProgressTime(@, b, now)]
    /\ progressLock' = [progressLock EXCEPT ![b] = TRUE]
    /\ SetScan(b, i, [scans[b][i] EXCEPT !.pc = "write", !.synced = TRUE])
    /\ UNCHANGED <<envVars, faultsLeft, panicked, watchers, tgt, progressFile,
                   drainVars, pollVars, hist>>

\* scanDirectory after a walk without error: LastSync and Manager.SaveProgress
\* up to the write of the file (sourceDir gone: nothing is saved)
ScanSave(b, i) ==
    /\ ~panicked /\ i \in 1..Len(scans[b]) /\ scans[b][i].pc = "save"
    /\ ~progressLock[b]
    /\ status' = [status EXCEPT ![b].LastSync = now]
    /\ IF srcOnline[b]
       THEN /\ progress' = [progress EXCEPT ![b] = updateProgressTime(@, b, now)]
            /\ progressLock' = [progressLock EXCEPT ![b] = TRUE]
            /\ SetScan(b, i, [scans[b][i] EXCEPT !.pc = "write", !.synced = TRUE])
       ELSE /\ SetScan(b, i, [scans[b][i] EXCEPT !.pc = "clear", !.synced = TRUE])
            /\ UNCHANGED <<progress, progressLock>>
    /\ UNCHANGED <<envVars, faultsLeft, panicked, watchers, tgt, progressFile,
                   drainVars, pollVars, hist>>

\* Manager.SaveProgress: ProgressConfig.Save writes the file, or fails
ScanWrite(b, i) ==
    /\ ~panicked /\ i \in 1..Len(scans[b]) /\ scans[b][i].pc = "write"
    /\ \E res \in WriteResults :
          /\ progressFile' = WriteFile(progressFile, progress[b], res)
          /\ IF res = "ok"
             THEN /\ hist' = [hist EXCEPT ![b].saved = TRUE]
                  /\ UNCHANGED faultsLeft
             ELSE /\ faultsLeft > 0
                  /\ faultsLeft' = faultsLeft - 1
                  /\ UNCHANGED hist
    /\ progressLock' = [progressLock EXCEPT ![b] = FALSE]
    /\ SetScan(b, i, [scans[b][i] EXCEPT !.pc = "clear"])
    /\ UNCHANGED <<envVars, panicked, watchers, tgt, progress, drainVars, status,
                   pollVars>>

\* scanDirectory's last statement; the goroutine ends
ScanClear(b, i) ==
    /\ ~panicked /\ i \in 1..Len(scans[b]) /\ scans[b][i].pc = "clear"
    /\ status' = [status EXCEPT ![b].IsBackingUp = FALSE]
    /\ scans' = [scans EXCEPT ![b] =
          SubSeq(@, 1, i - 1) \o SubSeq(@, i + 1, Len(@))]
    /\ hist' = [hist EXCEPT ![b] = EndHist(@, scans[b][i])]
    /\ UNCHANGED <<envVars, faultsLeft, panicked, watchers, tgt, progressVars,
                   pollVars>>

\* ------------------------------------------------------------ environment
Advance ==
    /\ ~panicked /\ now < MaxTime
    /\ now' = now + 1
    /\ UNCHANGED <<togglesLeft, editsLeft, faultsLeft, panicked, watchers, srcOnline,
                   src, tgt, progressVars, status, pollVars, scans, hist>>

Toggle ==
    /\ ~panicked /\ togglesLeft > 0
    /\ togglesLeft' = togglesLeft - 1
    /\ UNCHANGED <<now, editsLeft, faultsLeft, panicked, watchers, src, tgt,
                   progressVars, status, pollVars>>

Edit ==
    /\ ~panicked /\ editsLeft > 0
    /\ editsLeft' = editsLeft - 1
    /\ UNCHANGED <<now, togglesLeft, faultsLeft, panicked, watchers, srcOnline, tgt,
                   progressVars, status, pollVars>>

\* the source directory is removed or its volume unmounted
RemoveSource(b) ==
    /\ Toggle /\ b \in watchers /\ srcOnline[b]
    /\ srcOnline' = [srcOnline EXCEPT ![b] = FALSE]
    /\ scans' = [scans EXCEPT ![b] = OfflineScans(@)]
    /\ hist' = [hist EXCEPT ![b].obsFresh = FALSE]

\* the same path is back
RecreateSource(b) ==
    /\ Toggle /\ b \in watchers /\ ~srcOnline[b]
    /\ srcOnline' = [srcOnline EXCEPT ![b] = TRUE]
    /\ hist' = [hist EXCEPT ![b].obsFresh = FALSE, ![b].recreatePending = TRUE]
    /\ UNCHANGED scans

\* a file or directory appears on the volume, new (mtime now) or carrying an
\* older modification time
AddEntry(b, p, m) ==
    /\ Edit /\ b \in watchers /\ ~src[b][p].ex
    /\ ParentExists(src[b], p)
    /\ src' = [src EXCEPT ![b][p] = Entry(m)]
    /\ scans' = [scans EXCEPT ![b] = EditedScans(@, {})]
    /\ hist' = [hist EXCEPT ![b] = EditHist(@, {},
          IF hist[b].prevDone /\ p \in Files /\ ~tgt[b][p].ex THEN {p} ELSE {})]

\* a file, or a directory with all it holds, is deleted from the volume
RemoveEntry(b, p) ==
    /\ Edit /\ b \in watchers /\ src[b][p].ex
    /\ src' = [src EXCEPT ![b] =
          [q \in Paths |-> IF q \in Subtree(p) THEN NoEntry ELSE @[q]]]
    /\ scans' = [scans EXCEPT ![b] = EditedScans(@, Subtree(p))]
    /\ hist' = [hist EXCEPT ![b] = EditHist(@, Subtree(p), {})]

\* a file on the volume is rewritten
TouchFile(b, p) ==
    /\ Edit /\ b \in watchers /\ p \in Files /\ src[b][p].ex
    /\ src[b][p].mt # now
    /\ src' = [src EXCEPT ![b][p].mt = now]
    /\ scans' = [scans EXCEPT ![b] = EditedScans(@, {})]
    /\ hist' = [hist EXCEPT ![b] = EditHist(@, {}, {})]

\* ------------------------------------------------------------------- Next
Next ==
    \/ Advance
    \/ \E b \in watchers : PollTick(b)
    \/ \E b \in watchers : PollExit(b)
    \/ \E b \in watchers : Stop(b)
    \/ \E b \in watchers : \E i \in 1..Len(scans[b]) : ScanStart(b, i)
    \/ \E b \in watchers : \E i \in 1..Len(scans[b]) : ScanVisit(b, i)
    \/ \E b \in watchers : \E i \in 1..Len(scans[b]) : ScanMkdir(b, i)
    \/ \E b \in watchers : \E i \in 1..Len(scans[b]) : ScanBackup(b, i)
    \/ \E b \in watchers : \E i \in 1..Len(scans[b]) : ScanCopy(b, i)
    \/ \E b \in watchers : \E i \in 1..Len(scans[b]) : ScanLeave(b, i)
    \/ \E b \in watchers : \E i \in 1..Len(scans[b]) : ScanSave(b, i)
    \/ \E b \in watchers : \E i \in 1..Len(scans[b]) : ScanWrite(b, i)
    \/ \E b \in watchers : \E i \in 1..Len(scans[b]) : ScanClear(b, i)
    \/ \E b \in watchers : RemoveSource(b)
    \/ \E b \in watchers : RecreateSource(b)
    \/ \E b \in watchers, p \in Paths, m \in {1, now} : AddEntry(b, p, m)
    \/ \E b \in watchers, p \in Paths : RemoveEntry(b, p)
    \/ \E b \in watchers, p \in Paths : TouchFile(b, p)

Spec == Init /\ [][Next]_vars

\* the bindings of one process polling and scanning side by side
\* (their trees hold no directory: os.MkdirAll is never reached)
NextShared ==
    \/ Advance
    \/ \E b \in watchers : PollTick(b)
    \/ \E b \in watchers : \E i \in 1..Len(scans[b]) : ScanStart(b, i)
    \/ \E b \in watchers : \E i \in 1..Len(scans[b]) : ScanVisit(b, i)
    \/ \E b \in watchers : \E i \in 1..Len(scans[b]) : ScanBackup(b, i)
    \/ \E b \in watchers : \E i \in 1..Len(scans[b]) : ScanCopy(b, i)
    \/ \E b \in watchers : \E i \in 1..Len(scans[b]) : ScanLeave(b, i)
    \/ \E b \in watchers : \E i \in 1..Len(scans[b]) : ScanSave(b, i)
    \/ \E b \in watchers : \E i \in 1..Len(scans[b]) : ScanWrite(b, i)
    \/ \E b \in watchers : \E i \in 1..Len(scans[b]) : ScanClear(b, i)

SpecShared == InitShared /\ [][NextShared]_vars

\* one binding whose source content is not edited
NextRace ==
    \/ Advance
    \/ \E b \in watchers : PollTick(b)
    \/ \E b \in watchers : PollExit(b)
    \/ \E b \in watchers : Stop(b)
    \/ \E b \in watchers : \E i \in 1..Len(scans[b]) : ScanStart(b, i)
    \/ \E b \in watchers : \E i \in 1..Len(scans[b]) : ScanVisit(b, i)
    \/ \E b \in watchers : \E i \in 1..Len(scans[b]) : ScanMkdir(b, i)
    \/ \E b \in watchers : \E i \in 1..Len(scans[b]) : ScanBackup(b, i)
    \/ \E b \in watchers : \E i \in 1..Len(scans[b]) : ScanCopy(b, i)
    \/ \E b \in watchers : \E i \in 1..Len(scans[b]) : ScanLeave(b, i)
    \/ \E b \in watchers : \E i \in 1..Len(scans[b]) : ScanSave(b, i)
    \/ \E b \in watchers : \E i \in 1..Len(scans[b]) : ScanWrite(b, i)
    \/ \E b \in watchers : \E i \in 1..Len(scans[b]) : ScanClear(b, i)
    \/ \E b \in watchers : RemoveSource(b)
    \/ \E b \in watchers : RecreateSource(b)

SpecRace == InitRace /\ [][NextRace]_vars

\* ------------------------------------------------------------- properties
ScansOf(b) == {scans[b][i] : i \in 1..Len(scans[b])}

\* the walk of scan s is over: scanDirectory has the result of scanSubDirectory
WalkEnded(s) == s.pc \in {"save", "write", "clear"}

\* C1, as claimed: every removal and recreation of sourceDir gets its scan (one
\* is launched by the tick that sees the recreated directory with no scan in
\* progress), and no second scan is launched while sourceDir stays present.
C1_OneScanPerRecreate ==
    \A b \in watchers :
        ~stopped[b] =>
            /\ hist[b].launchesSinceAbsent <= 1
            /\ ~(/\ hist[b].recreatePending
                 /\ hist[b].lastObs = "exists"
                 /\ hist[b].obsFresh
                 /\ ~hist[b].obsBusy)

\* C1, amended: the launch is triggered by what the poll ticks observe. Since a
\* tick last saw sourceDir absent (or since Start) at most one scan is launched,
\* and it is launched by the first tick that sees sourceDir present while
\* IsBackingUp is false.
C1_OneScanPerObservedEdge ==
    \A b \in watchers :
        /\ hist[b].launchesSinceAbsent <= 1
        /\ (hist[b].lastObs = "exists" /\ ~hist[b].obsBusy)
               => hist[b].launchesSinceAbsent = 1

\* a second scan was launched after sourceDir was seen absent and present again,
\* and a later tick saw it present without launching another
C1_Witness ==
    \E b \in watchers :
        /\ hist[b].prevDone /\ srcOnline[b] /\ ~stopped[b]
        /\ hist[b].lastObs = "exists" /\ hist[b].obsBusy /\ hist[b].obsFresh
        /\ hist[b].launchesSinceAbsent = 1
        /\ ~hist[b].recreatePending
        /\ Len(scans[b]) = 1

\* C2: a scan that set LastSync and called SaveProgress met no callback error at
\* any depth of the walk.
C2_SyncOnlyWithoutFatal ==
    \A b \in watchers : \A s \in ScansOf(b) : s.synced => ~s.fatal

\* C3: once SaveProgress has written the record of a binding, the progress file
\* holds a record for its sourceDir, whatever the other bindings save.
C3_RecordNeverDeleted ==
    \A b \in watchers : hist[b].saved => HasRecord(progressFile, b)

\* C4: no step takes the ProgressTime the progress file holds for a sourceDir
\* to an earlier time.
C4_RecordTimeNeverDecreases ==
    [][\A b \in Bindings :
          (HasRecord(progressFile, b) /\ HasRecord(progressFile', b)) =>
              RecordTime(progressFile', b) >= RecordTime(progressFile, b)]_vars

C6_NoTargetRemoved ==
    \A b \in watchers : \A p \in hist[b].everSuccess : tgt[b][p].ex

\* a rescan of the present source has ended after a backed-up file was deleted
\* from the source, and the target copy is there
C6_Witness ==
    \E b \in watchers : \E s \in ScansOf(b) :
        /\ s.pc = "clear" /\ ~s.offline /\ ~s.err
        /\ \E p \in s.delAtStart : ~src[b][p].ex /\ tgt[b][p].ex

\* C7: when a scan ends that met no error, with sourceDir present and the
\* content untouched all through it, every file that was added after an earlier
\* scan and had no target copy when this scan began has one now, unless its
\* copy failed.
C7_AddedFileCopied ==
    \A b \in watchers : \A s \in ScansOf(b) :
        (WalkEnded(s) /\ ~s.fatal /\ ~s.offline /\ ~s.edited) =>
            \A p \in s.newAtStart : p \in s.failed \/ tgt[b][p].ex

\* C8: a file entry whose stat failed is counted as Failed, and when only file
\* entries failed, every file that was on the volume all through the scan has
\* been passed to Backup when the walk ends.
C8_FileFailureNotFatal ==
    \A b \in watchers : \A s \in ScansOf(b) :
        /\ (s.statErr \cap Files) \subseteq s.failed
        /\ (WalkEnded(s) /\ ~s.mkdirErr /\ s.statErr \subseteq Files)
               => s.stable \subseteq s.visited

\* C9: a second Stop returns normally.
C9_StopIdempotent == ~panicked

\* C10: after Stop the Monitor processes no poll tick and launches no scan.
C10_NoPollAfterStop ==
    \A b \in watchers : ~hist[b].tickAfterStop /\ ~hist[b].launchAfterStop

\* C11: at no time are SaveProgress critical sections (updateProgressTime plus
\* the write of the progress file) of two bindings under way together.
C11_SaveProgressSerialized ==
    \A b \in watchers : \A c \in watchers :
        (progressLock[b] /\ progressLock[c]) => b = c

\* a copy by scan i of binding b ends with Success in this step
CopySuccessStep(b, i) ==
    /\ i \in 1..Len(scans[b]) /\ i \in 1..Len(scans'[b])
    /\ scans[b][i].copying /\ ~scans'[b][i].copying
    /\ scans[b][i].cur \in scans'[b][i].ok

C16_TargetNeverRewritten ==
    [][\A b \in Bindings : \A p \in Files :
          tgt[b][p].ex => tgt'[b][p] = tgt[b][p]]_vars

C20_AtMostOneScan == \A b \in watchers : Len(scans[b]) <= 1

\* C12: when the walk of a scan has ended, with sourceDir present and the
\* content untouched all through it, no target directory the scan created for
\* a source subtree holding no file is left.
C12_NoEmptyMirrorLeft ==
    \A b \in watchers : \A s \in ScansOf(b) :
        (WalkEnded(s) /\ ~s.offline /\ ~s.edited) =>
            \A p \in s.made :
                (\A q \in Subtree(p) \cap Files : ~src[b][q].ex) => ~tgt[b][p].ex

\* C15: when the walk of a scan has ended without error, with sourceDir present
\* and the content untouched all through it, every file that was Failed in the
\* scan before and is still in the source was handed to copyFile again: its
\* outcome is Success or Failed, not Skipped.
C15_FailedFileRetried ==
    \A b \in watchers : \A s \in ScansOf(b) :
        (WalkEnded(s) /\ ~s.fatal /\ ~s.offline /\ ~s.edited) =>
            \A p \in s.retry : p \in s.ok \cup s.failed

\* a poll tick of binding b launches a scan in this step
LaunchStep(b) == Len(scans'[b]) = Len(scans[b]) + 1

\* C18: a scan is launched only when no scan was launched since a poll tick
\* last saw sourceDir absent (or since Start), so between two launches of a
\* Watcher lies a tick that saw sourceDir absent, and while every tick sees it
\* present at most one scan is launched.
C18_AbsentTickBetweenLaunches ==
    [][\A b \in Bindings :
          LaunchStep(b) =>
              /\ hist[b].launchesSinceAbsent = 0
              /\ hist'[b].launchesSinceAbsent = 1
              /\ ~status[b].IsLastCheckExists]_vars

\* a scan has ended, a tick saw sourceDir absent, and the tick that saw it
\* present again has just launched the second scan
C18_Witness ==
    \E b \in watchers :
        /\ hist[b].prevDone /\ Len(scans[b]) = 1 /\ scans[b][1].pc = "start"
        /\ hist[b].lastObs = "exists" /\ ~hist[b].obsBusy
        /\ hist[b].launchesSinceAbsent = 1

\* ------------------------------------------------- the upsert on its own
\* no two records of cfgs have the same SourceDir
NoDuplicates(cfgs) ==
    \A i \in 1..Len(cfgs) : \A j \in 1..Len(cfgs) :
        cfgs[i].SourceDir = cfgs[j].SourceDir => i = j

\* the record sets without duplicates a progress file of an earlier run may
\* hold, with times up to the time of Start
RecordSets ==
    LET Items == {ProgressConfigItem(b, t) : b \in Bindings, t \in ZeroTime..1}
        Seqs == UNION {[1..n -> Items] : n \in 0..NumBindings}
    IN  {cfgs \in Seqs : NoDuplicates(cfgs)}

\* Every Manager holds a record set without duplicates; nothing else runs.
InitUpsert ==
    /\ InitCommon
    /\ InitBudget({Budget(0, 0, 0, 0)})
    /\ watchers = Bindings
    /\ hist = HistAtStart(watchers)
    /\ srcOnline = [b \in Bindings |-> TRUE]
    /\ src = [b \in Bindings |-> EmptyTree]
    /\ tgt = [b \in Bindings |-> EmptyTree]
    /\ progressFile = EmptyProgress
    /\ progress \in [Bindings -> RecordSets]
    /\ pollRunning = [b \in Bindings |-> FALSE]

\* Manager b calls updateProgressTime(time.Now())
Upsert(b) ==
    /\ progress' = [progress EXCEPT ![b] = updateProgressTime(@, b, now)]
    /\ UNCHANGED <<envVars, faultsLeft, panicked, watchers, tgt, progressFile,
                   progressLock, drainVars, status, pollVars, scans, hist>>

NextUpsert ==
    \/ Advance
    \/ \E b \in Bindings : Upsert(b)

SpecUpsert == InitUpsert /\ [][NextUpsert]_vars

\* C14: an upsert on a record set without duplicates gives a record set without
\* duplicates: it changes only the ProgressTime of the record of its sourceDir,
\* or, when there is none, appends exactly one record for it; every other
\* record stays as it is, in its place.
C14_UpsertKeepsOneRecordPerSource ==
    [][\A b \in Bindings :
          LET old == progress[b]
              new == progress'[b]
          IN  (NoDuplicates(old) /\ new # old) =>
                  /\ NoDuplicates(new)
                  /\ HasRecord(new, b) /\ RecordTime(new, b) = now
                  /\ \A i \in 1..Len(old) : old[i].SourceDir # b => new[i] = old[i]
                  /\ IF HasRecord(old, b)
                     THEN /\ Len(new) = Len(old)
                          /\ \A i \in 1..Len(old) : new[i].SourceDir = old[i].SourceDir
                     ELSE /\ Len(new) = Len(old) + 1
                          /\ new[Len(new)] = ProgressConfigItem(b, now)]_vars

\* one Manager's upsert appended its record behind the other binding's, another
\* Manager's upsert updated its record in place in front of the other's
C14_Witness ==
    \E b \in Bindings : \E c \in Bindings :
        /\ b # c
        /\ Len(progress[b]) = 2 /\ progress[b][2] = ProgressConfigItem(b, 2)
        /\ progress[b][1].SourceDir = c
        /\ Len(progress[c]) = 2 /\ progress[c][1] = ProgressConfigItem(c, 2)
        /\ progress[c][2].SourceDir = b

\* ------------------------------------------- the scan goroutine scheduled
\* One configured binding with a file at the root and one in a directory; the
\* source goes offline and online, I/O faults are injected, nobody calls Stop.
InitFair == InitOne({Budget(MaxToggles, 0, MaxFaults, 0)}, {TreeOf({"a", "d", "d/f"})})

\* the next statement of a scanDirectory goroutine of binding b
ScanStep(b) ==
    \E i \in 1..Len(scans[b]) :
        \/ ScanStart(b, i)
        \/ ScanVisit(b, i)
        \/ ScanMkdir(b, i)
        \/ ScanBackup(b, i)
        \/ ScanCopy(b, i)
        \/ ScanLeave(b, i)
        \/ ScanSave(b, i)
        \/ ScanWrite(b, i)
        \/ ScanClear(b, i)

NextFair ==
    \/ Advance
    \/ \E b \in watchers : PollTick(b)
    \/ \E b \in watchers : ScanStep(b)
    \/ \E b \in watchers : RemoveSource(b)
    \/ \E b \in watchers : RecreateSource(b)

\* The Go scheduler runs every runnable goroutine again and the filesystem
\* calls return: a scan goroutine that can take a step takes one.
SpecFair ==
    InitFair /\ [][NextFair]_vars /\ \A b \in Bindings : WF_vars(ScanStep(b))

\* C19: every launched scan ends, and ends with IsBackingUp set to false,
\* whether the walk returned an error or not and whether SaveProgress failed or
\* not.
C19_ScanEventuallyClears ==
    \A b \in Bindings :
        (Len(scans[b]) > 0) ~> (Len(scans[b]) = 0 /\ ~status[b].IsBackingUp)

\* the first scan ended on a walk error (LastSync was never set) and has
\* cleared IsBackingUp
C19_Witness ==
    \E b \in watchers :
        /\ hist[b].prevDone /\ Len(scans[b]) = 0 /\ ~status[b].IsBackingUp
        /\ status[b].LastSync = ZeroTime

\* C21: IsBackingUp is true exactly when a scan the Watcher launched has not
\* yet ended.
C21_BackingUpIffScanRunning ==
    \A b \in watchers : status[b].IsBackingUp <=> Len(scans[b]) > 0

\* C22: when a scan has advanced the progress record of its binding, every
\* file that was on the source volume all through the scan (the content was not
\* changed during it, whether or not sourceDir went away and came back) has
\* been passed to Backup by it.
C22_SavedScanVisitedAll ==
    \A b \in watchers : \A s \in ScansOf(b) :
        (s.pc = "write" /\ ~s.edited) =>
            {p \in Files : src[b][p].ex} \subseteq s.visited

\* C23: when the walk of a scan has ended, the counters of the Watcher count
\* the files that scan passed to Backup and their outcomes, and TotalFiles is
\* the sum of the three outcome counters.
C23_CountersOfTheScan ==
    \A b \in watchers : \A s \in ScansOf(b) :
        WalkEnded(s) =>
            /\ status[b].TotalFiles = Cardinality(s.visited)
            /\ status[b].SuccessFiles = Cardinality(s.ok)
            /\ status[b].FailedFiles = Cardinality(s.failed)
            /\ status[b].SkippedFiles = Cardinality(s.skipped)
            /\ status[b].TotalFiles = status[b].SuccessFiles
                   + status[b].FailedFiles + status[b].SkippedFiles

\* scan i of binding b returns from copyFile in this step
CopyStep(b, i) ==
    /\ i \in 1..Len(scans[b]) /\ scans[b][i].copying
    /\ Len(scans'[b]) = Len(scans[b]) /\ ~scans'[b][i].copying

\* a step of that copy fails: the source file or the target's directory is gone,
\* or an I/O fault is injected
CopyFaultStep(b, i) ==
    \/ ~SrcStatOk(b, scans[b][i].cur)
    \/ ~ParentExists(tgt[b], scans[b][i].cur)
    \/ faultsLeft' < faultsLeft

StatFailTick(b, obs) ==
    /\ obs \in {"notexist", "error"}
    /\ obs = "notexist" => ~srcOnline[b]
    /\ PollTick(b)
    /\ checkDirectoryExists(b, obs)

\* C25: a poll tick whose stat of sourceDir fails launches no scan and leaves
\* the running scans, IsBackingUp, the counters, LastSync, the targets and the
\* progress records as they are; when sourceDir does not exist
\* IsLastCheckExists becomes (or stays) false, and on any other error the whole
\* status stays as it is.
C25_FailedStatTickFrame ==
    [][\A b \in Bindings : \A obs \in {"notexist", "error"} :
          StatFailTick(b, obs) =>
              /\ scans' = scans
              /\ status' = [status EXCEPT ![b].IsLastCheckExists =
                               IF obs = "notexist" THEN FALSE ELSE @]
              /\ UNCHANGED <<tgt, progressVars, stopped, pollRunning>>]_vars

\* a tick saw sourceDir gone while a scan was running: IsLastCheckExists is
\* false and the scan is still there with IsBackingUp true
C25_Witness ==
    \E b \in watchers :
        /\ Len(scans[b]) = 1 /\ scans[b][1].pc = "walk"
        /\ status[b].IsBackingUp /\ ~status[b].IsLastCheckExists
        /\ status[b].TotalFiles > 0
        /\ hist[b].lastObs = "notexist" /\ hist[b].obsBusy /\ hist[b].obsFresh

\* C26: until a poll tick has observed sourceDir the Watcher has launched no
\* scan and takes sourceDir for absent, whether it exists or not; the first
\* tick that observes it present launches exactly one scan.
C26_StartsOfflineFirstTickLaunches ==
    /\ [](\A b \in watchers :
             hist[b].lastObs = "none" =>
                 /\ Len(scans[b]) = 0
                 /\ ~status[b].IsLastCheckExists /\ ~status[b].IsBackingUp)
    /\ [][\A b \in Bindings :
             (hist[b].lastObs = "none" /\ hist'[b].lastObs = "exists") =>
                 /\ scans'[b] = <<NewScan>>
                 /\ status'[b] = LaunchStatus(status[b])]_vars

\* sourceDir was there at Start and the first tick has just launched the scan
C26_Witness ==
    \E b \in watchers :
        /\ ~hist[b].prevDone /\ ~stopped[b] /\ srcOnline[b] /\ hist[b].obsFresh
        /\ hist[b].lastObs = "exists" /\ ~hist[b].obsBusy
        /\ hist[b].launchesSinceAbsent = 1
        /\ scans[b] = <<NewScan>>
        /\ togglesLeft = MaxToggles

\* the entries scan s is working on or has still to visit: the directories of
\* its WalkDir calls, their unvisited entries, the file handed to Backup
Pending(s) ==
    {s.stack[k].dir : k \in 1..Len(s.stack)}
        \cup UNION {{s.stack[k].todo[j] : j \in 1..Len(s.stack[k].todo)} :
                       k \in 1..Len(s.stack)}
        \cup {s.cur}

\* C27: when the callback of a directory has made its pruning check and set the
\* mirrored directory's time, the scan is done with the whole subtree: it has no
\* entry of it left to visit, and no file of it in Backup or being copied.
C27_SubtreeDoneBeforeDirTime ==
    \A b \in watchers : \A s \in ScansOf(b) :
        \A d \in s.left : Pending(s) \cap Subtree(d) = {}

\* a scan has copied d/f, then set the time of the mirrored d, and is on its way
C27_Witness ==
    \E b \in watchers : \E s \in ScansOf(b) :
        /\ "d" \in s.left /\ "d/f" \in s.ok
        /\ tgt[b]["d"].ex /\ tgt[b]["d"].mt = src[b]["d"].mt
        /\ tgt[b]["d/f"].ex

\* scan s of binding b met no error of any kind and the source content was the
\* same all through it, and its walk has ended
CleanWalkEnded(b, s) == WalkEnded(s) /\ ~s.fatal /\ ~s.offline /\ ~s.edited

\* C28: a scan whose walk met no error has passed every file of the
\* source tree to Backup exactly once and nothing else, TotalFiles is the number
\* of files of the tree, and it has walked every directory exactly once.
C28_EachEntryOnce ==
    \A b \in watchers : \A s \in ScansOf(b) :
        CleanWalkEnded(b, s) =>
            /\ s.visited = {p \in Files : src[b][p].ex}
            /\ s.nfiles = Cardinality(s.visited)
            /\ status[b].TotalFiles = Cardinality({p \in Files : src[b][p].ex})
            /\ s.left = {p \in Dirs : src[b][p].ex}
            /\ s.ndirs = Cardinality(s.left)

\* scan i of binding b returns from the walk of directory q in this step and
\* ends the callback of q (pruning check, time of the mirrored directory)
DirCallbackEnds(b, i, q) ==
    /\ i \in 1..Len(scans[b]) /\ Len(scans'[b]) = Len(scans[b])
    /\ scans[b][i].pc = "walk" /\ Len(scans[b][i].stack) > 1
    /\ Top(scans[b][i]).dir = q
    /\ Len(scans'[b][i].stack) = Len(scans[b][i].stack) - 1
    /\ ~scans[b][i].mk

\* C29: a target directory leaves the target tree only in the step that ends
\* the callback of a scan for it, and only when that scan is the one that
\* created it and it is empty then; a directory that was there when the scan
\* came to it is not removed, empty or not.
C29_OnlyOwnEmptyDirRemoved ==
    [][\A b \in Bindings : \A q \in Dirs :
          (tgt[b][q].ex /\ ~tgt'[b][q].ex) =>
              \E i \in 1..Len(scans[b]) :
                  /\ DirCallbackEnds(b, i, q)
                  /\ q \in scans[b][i].made
                  /\ Top(scans[b][i]).isNewDir
                  /\ Children(tgt[b], q) = <<>>]_vars

\* scan i of binding b goes on from its call of SaveProgress in this step
SaveStep(b, i) ==
    /\ i \in 1..Len(scans[b]) /\ Len(scans'[b]) = Len(scans[b])
    /\ scans[b][i].pc = "save" /\ scans'[b][i].pc # "save"

\* C30: when sourceDir does not exist as SaveProgress runs, the scan has set
\* LastSync to the current time, and SaveProgress returns without error leaving
\* the Manager's progress records and the progress file as they are (the scan
\* goes on to its last statement with the lock free).
C30_SaveSkippedWhenSourceGone ==
    [][\A b \in Bindings : \A i \in 1..2 :
          (SaveStep(b, i) /\ ~srcOnline[b]) =>
              /\ status'[b].LastSync = now
              /\ progress' = progress /\ progressFile' = progressFile
              /\ progressLock' = progressLock /\ faultsLeft' = faultsLeft
              /\ scans'[b][i].pc = "clear" /\ ~scans'[b][i].err]_vars

\* the first scan has ended with sourceDir gone at SaveProgress: LastSync is
\* set and the Manager has no record of the binding
C30_Witness ==
    \E b \in watchers :
        /\ hist[b].prevDone /\ Len(scans[b]) = 0
        /\ status[b].LastSync # ZeroTime
        /\ ~HasRecord(progress[b], b) /\ ~HasRecord(progressFile, b)

\* the write of the progress file by scan i of binding b fails in this step
WriteFailStep(b, i) ==
    /\ i \in 1..Len(scans[b]) /\ Len(scans'[b]) = Len(scans[b])
    /\ scans[b][i].pc = "write" /\ scans'[b][i].pc # "write"
    /\ faultsLeft' < faultsLeft

\* C31: when the write of the progress file fails, the Manager's record keeps
\* the time SaveProgress has just set, the scan goes on to its last statement
\* (which clears IsBackingUp) with the lock released, and the progress file
\* holds what it held before.
C31_FailedWriteKeepsFile ==
    [][\A b \in Bindings : \A i \in 1..2 :
          WriteFailStep(b, i) =>
              /\ progress' = progress
              /\ HasRecord(progress[b], b)
              /\ scans'[b][i].pc = "clear" /\ ~progressLock'[b]
              /\ progressFile' = progressFile]_vars

\* ------------------------------------------------------- WatcherManager
\* main configures the bindings one AddWatcher at a time, then waits for the
\* signal and calls StopAll. `watchers` is the key set of wm.watchers.
AddWatcherResults == {"ok", "empty", "newFail"}

\* NewWatcher and Start for sourceDir b, then wm.watchers[b] = w
StartWatcher(b) ==
    /\ watchers' = watchers \cup {b}
    /\ status' = [status EXCEPT ![b] = InitStatus]
    /\ progress' = [progress EXCEPT ![b] = LoadProgress(progressFile)]
    /\ pollRunning' = [pollRunning EXCEPT ![b] = TRUE]
    /\ hist' = [hist EXCEPT ![b].live = @ + 1]
    /\ UNCHANGED faultsLeft

\* AddWatcher without the test of wm.watchers[sourceDir]
AddWatcherNoExistsCheck(b, res) ==
    /\ ~panicked /\ \A c \in Bindings : ~stopped[c]
    /\ IF res = "empty"
       THEN UNCHANGED <<faultsLeft, watchers, status, progress, pollRunning, hist>>
       ELSE IF res = "newFail"
       THEN /\ faultsLeft > 0 /\ faultsLeft' = faultsLeft - 1
            /\ UNCHANGED <<watchers, status, progress, pollRunning, hist>>
       ELSE StartWatcher(b)
    /\ UNCHANGED <<envVars, panicked, tgt, progressFile, progressLock, drainVars,
                   stopped, lateLeft, scans>>

\* WatcherManager.AddWatcher for the binding b of the configuration: "empty"
\* when its sourceDir, targetDir or progressFile is the empty string,
\* "newFail" when NewWatcher returns an error
AddWatcher(b, res) ==
    /\ ~panicked /\ \A c \in Bindings : ~stopped[c]
    /\ IF res = "empty"
       THEN UNCHANGED <<faultsLeft, watchers, status, progress, pollRunning, hist>>
       ELSE IF b \in watchers
       THEN UNCHANGED <<faultsLeft, watchers, status, progress, pollRunning, hist>>
       ELSE IF res = "newFail"
       THEN /\ faultsLeft > 0 /\ faultsLeft' = faultsLeft - 1
            /\ UNCHANGED <<watchers, status, progress, pollRunning, hist>>
       ELSE StartWatcher(b)
    /\ UNCHANGED <<envVars, panicked, tgt, progressFile, progressLock, drainVars,
                   stopped, lateLeft, scans>>

\* WatcherManager.StopAll: Stop and delete every Watcher of the map; main
\* returns after it and the process ends with its goroutines
StopAll ==
    /\ ~panicked /\ watchers # {}
    /\ stopped' = [b \in Bindings |-> stopped[b] \/ b \in watchers]
    /\ status' = [b \in Bindings |->
          IF b \in watchers THEN [status[b] EXCEPT !.IsBackingUp = FALSE] ELSE status[b]]
    /\ watchers' = {}
    /\ hist' = [b \in Bindings |-> [hist[b] EXCEPT !.live = 0]]
    /\ UNCHANGED <<envVars, faultsLeft, panicked, tgt, progressVars, pollRunning,
                   lateLeft, scans>>

\* No binding is registered yet; the progress file is new or left by an
\* earlier run that backed the trees up.
InitManager ==
    /\ InitCommon
    /\ InitBudget({Budget(0, 0, MaxFaults, 0)})
    /\ watchers = {}
    /\ hist = HistAtStart(watchers)
    /\ srcOnline = [b \in Bindings |-> TRUE]
    /\ src = [b \in Bindings |-> TreeOf({"a"})]
    /\ progressFile \in {EmptyProgress, PrevRunFile}
    /\ tgt = [b \in Bindings |->
                 IF progressFile = EmptyProgress THEN EmptyTree ELSE src[b]]
    /\ progress = [b \in Bindings |-> EmptyProgress]
    /\ pollRunning = [b \in Bindings |-> FALSE]

NextManager ==
    \/ \E b \in Bindings, res \in AddWatcherResults : AddWatcher(b, res)
    \/ StopAll
    \/ NextShared

SpecManager == InitManager /\ [][NextManager]_vars

\* ---------------------------------------------------------------- C32
\* an AddWatcher call that returned the error of NewWatcher: a fault was
\* injected and no scan moved
AddWatcherFailStep ==
    faultsLeft' < faultsLeft /\ scans' = scans

\* C32: the WatcherManager holds at most one Monitor per sourceDir. Each
\* sourceDir of the map has exactly one Watcher that AddWatcher started and
\* whose poll goroutine runs, a sourceDir outside the map has none; an
\* AddWatcher for a registered sourceDir, or one given an empty path, changes
\* nothing at all; an AddWatcher whose NewWatcher failed leaves the map, the
\* Watchers and their goroutines as they were.
C32_OneStartedWatcherPerSourceDir ==
    /\ [](\A b \in Bindings :
            /\ hist[b].live = (IF b \in watchers THEN 1 ELSE 0)
            /\ b \in watchers => pollRunning[b])
    /\ [][/\ \A b \in Bindings, res \in AddWatcherResults :
               (AddWatcher(b, res) /\ (b \in watchers \/ res = "empty"))
                   => UNCHANGED vars
          /\ AddWatcherFailStep =>
               UNCHANGED <<watchers, status, progress, pollRunning, stopped, hist>>]_vars

\* every binding is registered and running, one AddWatcher failed before, and
\* a scan of the first registered Watcher is under way while AddWatcher can
\* still be called
C32_Witness ==
    /\ watchers = Bindings /\ faultsLeft < MaxFaults
    /\ \A b \in Bindings : hist[b].live = 1 /\ pollRunning[b] /\ ~stopped[b]
    /\ \E b \in Bindings : status[b].IsBackingUp /\ scans[b] # <<>>

\* ---------------------------------------------------- WaitForCompletion
\* Manager.WaitForCompletion is called: activeOps.Wait() returns at once when
\* the counter is zero and blocks otherwise
WaitCall(b) ==
    /\ ~panicked /\ b \in watchers
    /\ waiter[b] \in {"idle", "returned"}
    /\ waiter' = [waiter EXCEPT ![b] = IF activeOps[b] = 0 THEN "returned" ELSE "blocked"]
    /\ UNCHANGED <<envVars, faultsLeft, panicked, watchers, tgt, progressFile, progress,
                   progressLock, activeOps, status, pollVars, scans, hist>>

\* the Wait that Done released runs again: it returns when the counter is
\* still zero; a Backup that has entered meanwhile makes it panic (sync:
\* WaitGroup is reused before previous Wait has returned), which ends the
\* process
WaitReturn(b) ==
    /\ ~panicked /\ b \in watchers
    /\ waiter[b] = "woken"
    /\ IF activeOps[b] = 0
       THEN /\ waiter' = [waiter EXCEPT ![b] = "returned"]
            /\ hist' = [hist EXCEPT ![b].drained = TRUE]
            /\ UNCHANGED <<panicked, status, scans, pollRunning, progress,
                           progressLock, activeOps>>
       ELSE /\ panicked' = TRUE
            /\ status' = [c \in Bindings |-> InitStatus]
            /\ scans' = [c \in Bindings |-> <<>>]
            /\ pollRunning' = [c \in Bindings |-> FALSE]
            /\ progress' = [c \in Bindings |-> EmptyProgress]
            /\ progressLock' = [c \in Bindings |-> FALSE]
            /\ activeOps' = [c \in Bindings |-> 0]
            /\ waiter' = [c \in Bindings |-> "idle"]
            /\ UNCHANGED hist
    /\ UNCHANGED <<envVars, faultsLeft, watchers, tgt, progressFile, stopped, lateLeft>>

\* One binding with one file; copies may fail, and once sourceDir has been
\* away a tick taken after Stop launches a scan beside the one that runs.
InitDrain ==
    InitOne({Budget(MaxToggles, 0, MaxFaults, MaxLateTicks)}, {TreeOf({"a"})})

NextDrain ==
    \/ Advance
    \/ \E b \in watchers : PollTick(b)
    \/ \E b \in watchers : PollExit(b)
    \/ \E b \in watchers : Stop(b)
    \/ \E b \in watchers : \E i \in 1..Len(scans[b]) : ScanStart(b, i)
    \/ \E b \in watchers : \E i \in 1..Len(scans[b]) : ScanVisit(b, i)
    \/ \E b \in watchers : \E i \in 1..Len(scans[b]) : ScanBackup(b, i)
    \/ \E b \in watchers : \E i \in 1..Len(scans[b]) : ScanCopy(b, i)
    \/ \E b \in watchers : \E i \in 1..Len(scans[b]) : ScanLeave(b, i)
    \/ \E b \in watchers : \E i \in 1..Len(scans[b]) : ScanSave(b, i)
    \/ \E b \in watchers : \E i \in 1..Len(scans[b]) : ScanWrite(b, i)
    \/ \E b \in watchers : \E i \in 1..Len(scans[b]) : ScanClear(b, i)
    \/ \E b \in watchers : RemoveSource(b)
    \/ \E b \in watchers : RecreateSource(b)
    \/ \E b \in watchers : WaitCall(b)
    \/ \E b \in watchers : WaitReturn(b)

SpecDrain == InitDrain /\ [][NextDrain]_vars

\* ---------------------------------------------------------------- C33
\* the scans of binding b that are inside Manager.Backup
InBackup(b) == {i \in 1..Len(scans[b]) : scans[b][i].copying}

\* WaitForCompletion of binding b returns in this step
WaitReturnStep(b) ==
    waiter[b] # "returned" /\ waiter'[b] = "returned"

\* C33: the counter activeOps of a binding equals the number of Backup calls
\* of that binding that have entered and not returned, whatever the outcome of
\* the calls that returned, and WaitForCompletion returns only in a step
\* before and after which that number is zero.
C33_CounterIsBackupsInFlight ==
    /\ [](\A b \in Bindings : activeOps[b] = Cardinality(InBackup(b)))
    /\ [][\A b \in Bindings :
            WaitReturnStep(b) =>
                /\ activeOps[b] = 0 /\ InBackup(b) = {}
                /\ activeOps'[b] = 0
                /\ \A i \in 1..Len(scans'[b]) : ~scans'[b][i].copying]_vars

\* a WaitForCompletion that blocked on a running Backup has returned, after
\* Backup calls of the binding ended Success or Failed and Skipped
C33_Witness ==
    \E b \in Bindings :
        /\ hist[b].drained /\ waiter[b] = "returned" /\ activeOps[b] = 0
        /\ \E i \in 1..Len(scans[b]) :
               scans[b][i].skipped # {} \/ scans[b][i].pc = "clear"
====
